---- MODULE Spec2Model ----
(***************************************************************************)
(* Model of server.py: the /api-endpoint handler receive_task, the         *)
(* background unit process_task with its helpers generate_app_code,        *)
(* generate_readme, enable_github_pages and post_to_evaluation_url, and    *)
(* the hosting account the unit acts on.                                   *)
(*                                                                         *)
(* Texts are sequences of one-character strings (longer literal parts of   *)
(* a template are kept as one element).  Every outbound call (hosting API, *)
(* generation provider, evaluation URL) is one step.  process_task is a    *)
(* coroutine that never awaits, so the server process runs one background  *)
(* unit at a time, from its first call to its end, and handles no request  *)
(* meanwhile; the order in which scheduled units start is free (Spec).     *)
(* SpecWorkers gives every request a server process of its own on the one  *)
(* hosting account, so that the units interleave call by call.             *)
(* SpecGenerate and SpecNotify run generate_app_code and                   *)
(* post_to_evaluation_url on their own, over all their arguments.          *)
(***************************************************************************)
EXTENDS Integers, Sequences, FiniteSets, TLC

\* ------------------------------------------------------------ bounds
\* Number of inbound requests of one behaviour.
MaxUnits == 2
\* Number of hosting API calls of one behaviour that fail for a reason other
\* than the state of the account (network, rate limit, server error).
MaxFaults == 1
\* Largest retry budget handed to post_to_evaluation_url on its own.
MaxRetries == 5
\* Longest attachments list handed to generate_app_code on its own.
MaxAttachments == 2

\* ------------------------------------------------------------ configuration
EXPECTED_SECRET == "expected-secret"
GITHUB_USERNAME == "owner"
\* post_to_evaluation_url(url, payload, retries: int = 4)
DefaultRetries == 4

Units == 1..MaxUnits
\* Python's None, where a name is expected and where a text is expected.
None == "None"
NoText == <<"None">>

\* ------------------------------------------------------------ inputs
Secrets == {EXPECTED_SECRET, "wrong-secret"}
Tasks == {"T"}
Rounds == {1, 2}
Briefs == {<< >>, <<"a", "b">>}
\* The briefs sent when every request has a server process of its own.
WorkerBriefs == {<<"a", "b">>}
Checks == <<"check">>

\* Attachment.url texts: a literal part such as the scheme is one element.
UrlPlain == <<"https://", "h", "o", "s", "t", "/", "a", ".", "c", "s", "v">>
\* base64 of the two bytes "hi"
UrlText == <<"data:", "text/plain;base64", ",", "a", "G", "k", "=">>
\* base64 of the byte 0xFF, which is no UTF-8
UrlBytes == <<"data:", "image/png;base64", ",", "/", "w", "=", "=">>
\* base64 that lacks its padding
UrlBadPadding == <<"data:", "text/plain;base64", ",", "a", "G", "k">>
\* a data URI without the comma that starts its data
UrlNoComma == <<"data:", "text/plain;base64">>
Urls == {UrlPlain, UrlText, UrlBytes, UrlBadPadding, UrlNoComma}

\* class Attachment(BaseModel): name: str; url: str
Attachment(name, url) == [name |-> name, url |-> url]
AttachmentNames == {"f"}

\* Every attachments list of at most n entries.
RECURSIVE AttachmentLists(_)
AttachmentLists(n) ==
    IF n = 0 THEN {<< >>}
    ELSE LET shorter == AttachmentLists(n - 1) IN
         shorter \cup {Append(l, Attachment(name, url)) :
                           l \in shorter, name \in AttachmentNames, url \in Urls}

\* The request of unit u: email and nonce are those of the u-th sender;
\* attachments: Optional[List[Attachment]] = []
TaskRequest(u, secret, task, round, brief) ==
    [email |-> <<"mail", u>>, secret |-> secret, task |-> task, round |-> round,
     nonce |-> <<"nonce", u>>, brief |-> brief, checks |-> Checks,
     evaluation_url |-> <<"eval", u>>, attachments |-> << >>]

NoRequest == [email |-> <<None, 0>>, secret |-> None, task |-> None, round |-> 0,
              nonce |-> <<None, 0>>, brief |-> << >>, checks |-> << >>,
              evaluation_url |-> <<None, 0>>, attachments |-> << >>]

\* repo_name = f"{request.task}-{request.round}"
RepoNameOfTask(req) == <<req.task, 1>>

RepoName(req) == <<req.task, req.round>>

RepoNames == {<<t, r>> : t \in Tasks, r \in Rounds}

\* ------------------------------------------------------------ texts
\* str.strip(chars): drops from both ends every character that is in chars.
RECURSIVE LStrip(_, _)
LStrip(s, chars) ==
    IF s # << >> /\ Head(s) \in chars THEN LStrip(Tail(s), chars) ELSE s

RECURSIVE RStrip(_, _)
RStrip(s, chars) ==
    IF s # << >> /\ s[Len(s)] \in chars
    THEN RStrip(SubSeq(s, 1, Len(s) - 1), chars) ELSE s

PyStrip(s, chars) == RStrip(LStrip(s, chars), chars)

\* The backquote character (a code fence is three of them).
BQ == "bq"

\* response.text.strip(FENCE + "html").strip(FENCE), FENCE being three backquotes
StripFences(text) == PyStrip(PyStrip(text, {BQ, "h", "t", "m", "l"}), {BQ})

\* What the two providers answer when they answer.
GeminiText == <<BQ, BQ, BQ, "h", "t", "m", "l", "\n", "<", "p", ">", "\n", BQ, BQ, BQ>>
HuggingFaceText == <<"<", "h", "1", ">">>

\* What a provider may answer: a document, bare or between an opening and a
\* closing fence line, with or without white space around the whole.
Fence == <<BQ, BQ, BQ>>
Documents == {<<"<", "p", ">">>, <<"h", "i">>, <<"<", "b", ">", "\n", "m", "l">>}
Openings == {<< >>, Fence \o <<"\n">>, Fence \o <<"h", "t", "m", "l", "\n">>}
Closings == {<< >>, <<"\n">> \o Fence}
Margins == {<< >>, <<" ">>, <<"\n">>}
ProviderTexts ==
    {before \o opening \o document \o closing \o after :
        before \in Margins, opening \in Openings, document \in Documents,
        closing \in Closings, after \in Margins}

\* --- the attachments loop of generate_app_code
\* attach.url.startswith("data:")
StartsWithData(url) == url # << >> /\ Head(url) = "data:"

\* The place of the first comma of url from place i on, 0 when there is none.
RECURSIVE FirstComma(_, _)
FirstComma(url, i) ==
    IF i > Len(url) THEN 0
    ELSE IF url[i] = "," THEN i ELSE FirstComma(url, i + 1)

\* url.split(",", 1): two parts around the first comma, one part without it.
Split1(url) ==
    LET i == FirstComma(url, 1) IN
    IF i = 0 THEN <<url>>
    ELSE <<SubSeq(url, 1, i - 1), SubSeq(url, i + 1, Len(url))>>

\* The base64 alphabet, value n at place n + 1.
B64Chars ==
    <<"A", "B", "C", "D", "E", "F", "G", "H", "I", "J", "K", "L", "M", "N", "O", "P",
      "Q", "R", "S", "T", "U", "V", "W", "X", "Y", "Z", "a", "b", "c", "d", "e", "f",
      "g", "h", "i", "j", "k", "l", "m", "n", "o", "p", "q", "r", "s", "t", "u", "v",
      "w", "x", "y", "z", "0", "1", "2", "3", "4", "5", "6", "7", "8", "9", "+", "/">>
IsB64(c) == \E i \in DOMAIN B64Chars : B64Chars[i] = c
B64Value(c) == (CHOOSE i \in DOMAIN B64Chars : B64Chars[i] = c) - 1
IsPad(c) == c = "="

\* The 6-bit values of the alphabet characters of data, the others dropped.
RECURSIVE Sextets(_)
Sextets(data) ==
    IF data = << >> THEN << >>
    ELSE (IF IsB64(Head(data)) THEN <<B64Value(Head(data))>> ELSE << >>)
         \o Sextets(Tail(data))

\* The bytes that the 6-bit values spell, four values to three bytes.
RECURSIVE Bytes(_)
Bytes(sx) ==
    IF Len(sx) < 2 THEN << >>
    ELSE LET b1 == sx[1] * 4 + sx[2] \div 16 IN
         IF Len(sx) = 2 THEN <<b1>>
         ELSE LET b2 == (sx[2] % 16) * 16 + sx[3] \div 4 IN
              IF Len(sx) = 3 THEN <<b1, b2>>
              ELSE <<b1, b2, (sx[3] % 4) * 64 + sx[4]>>
                   \o Bytes(SubSeq(sx, 5, Len(sx)))

\* base64.b64decode(data) raises binascii.Error when the last group of data
\* is not padded to four characters.
B64Raises(data) ==
    LET n == Len(Sextets(data))
        pads == Len(SelectSeq(data, IsPad))
    IN  \/ n % 4 = 1
        \/ n % 4 = 2 /\ pads < 2
        \/ n % 4 = 3 /\ pads < 1

\* bytes.decode("utf-8", errors="ignore") of single bytes: a byte is written
\* as its number, and a byte that is no ASCII character is dropped.
IsAscii(b) == b < 128
RECURSIVE Utf8Ignore(_)
Utf8Ignore(bytes) ==
    IF bytes = << >> THEN << >>
    ELSE (IF IsAscii(Head(bytes)) THEN <<ToString(Head(bytes))>> ELSE << >>)
         \o Utf8Ignore(Tail(bytes))

\* content[:100]
Take(text, n) == SubSeq(text, 1, IF Len(text) < n THEN Len(text) ELSE n)

\* One turn of the loop: what it appends to attach_contents, or that it raises.
\* The split stands before the try, the decoding inside it.
Annotation(attach) ==
    IF ~StartsWithData(attach.url)
    THEN [raised |-> FALSE, text |-> << >>]
    ELSE LET parts == Split1(attach.url) IN
         IF Len(parts) # 2
         THEN [raised |-> TRUE, text |-> << >>]
         ELSE IF B64Raises(parts[2])
              THEN [raised |-> FALSE,
                    text |-> <<"\nAttachment ", attach.name, ": [Binary data]...">>]
              ELSE [raised |-> FALSE,
                    text |-> <<"\nAttachment ", attach.name, ": ">>
                             \o Take(Utf8Ignore(Bytes(Sextets(parts[2]))), 100)
                             \o <<"...">>]

\* for attach in attachments: the whole loop, stopped by the first raise.
RECURSIVE AttachContents(_)
AttachContents(attachments) ==
    IF attachments = << >> THEN [raised |-> FALSE, text |-> << >>]
    ELSE LET first == Annotation(Head(attachments)) IN
         IF first.raised THEN first
         ELSE LET rest == AttachContents(Tail(attachments)) IN
              [raised |-> rest.raised, text |-> first.text \o rest.text]

\* The final fallback of generate_app_code.
PlaceholderOther(brief, existing_code) ==
    <<"<!DOCTYPE html>\n<html><head><title>">>
    \o (IF existing_code = NoText THEN brief ELSE existing_code)
    \o <<"</title></head><body><h1>">> \o brief \o <<"</h1></body></html>">>

Placeholder(brief, existing_code) ==
    <<"<!DOCTYPE html>\n<html><head><title>">> \o brief
    \o <<"</title></head><body><h1>">> \o brief \o <<"</h1></body></html>">>

\* generate_readme: the holes of the template.
generate_readme(brief, checks, task, round) ==
    <<"# ", task, "-", ToString(round), "## Summary">> \o brief
    \o <<"## Usage">> \o checks \o <<"## License">>

MIT_LICENSE == <<"MIT License">>

\* if existing_code: (None and the empty text are both false)
Truthy(code) == code # NoText /\ code # << >>

\* The modify prompt replaces the generate prompt and names no attachment.
Prompt(brief, attach_contents, existing_code) ==
    IF Truthy(existing_code)
    THEN [kind |-> "modify", brief |-> brief, attachments |-> << >>,
          existing |-> existing_code]
    ELSE [kind |-> "generate", brief |-> brief, attachments |-> attach_contents,
          existing |-> NoText]

\* ------------------------------------------------------------ hosting account
Paths == {"README.md", "index.html", "LICENSE"}
NoFile == <<"NoFile">>
NoRepo == <<None, 0>>

\* A name no repository has.
Absent ==
    [exists |-> FALSE, files |-> [p \in Paths |-> NoFile],
     head |-> <<0, None>>, pages |-> FALSE]

\* A repository as create_repo(auto_init=True) leaves it.
FreshRepo ==
    [exists |-> TRUE,
     files |-> [p \in Paths |-> IF p = "README.md" THEN <<"auto_init">> ELSE NoFile],
     head |-> <<0, "auto_init">>, pages |-> FALSE]

\* A repository that an earlier complete round-1 run left behind.
PublishedRepo ==
    [exists |-> TRUE,
     files |-> [p \in Paths |-> CASE p = "README.md" -> <<"old readme">>
                                  [] p = "index.html" -> <<"<", "o", ">">>
                                  [] OTHER -> MIT_LICENSE],
     head |-> <<0, "old">>, pages |-> TRUE]

\* What a name of the account may hold before the first request.
PriorStates == {Absent, FreshRepo, PublishedRepo}
\* The same when every request has a server process of its own.
WorkerPriorStates == {Absent, PublishedRepo}

\* pages_url = f"https://{GITHUB_USERNAME}.github.io/{repo_name}/"
PagesUrl(name) ==
    <<"https://", GITHUB_USERNAME, ".github.io/", name[1], "-", ToString(name[2]), "/">>
\* repo.html_url
HtmlUrl(name) ==
    <<"https://github.com/", GITHUB_USERNAME, "/", name[1], "-", ToString(name[2])>>


\* ------------------------------------------------------------ state
VARIABLES
    repos,   \* the hosting account: repository name -> Absent or the repository
    req,     \* unit -> the TaskRequest it was started for (NoRequest before)
    pc,      \* unit -> where its handler or its background unit stands
    resp,    \* unit -> the HTTP response receive_task gave (None before)
    loc,     \* unit -> the locals of process_task and post_to_evaluation_url
    calls,   \* unit -> the outbound calls made on its behalf, in order
    faults   \* hosting API calls that failed for no reason of the account

vars == <<repos, req, pc, resp, loc, calls, faults>>

\* The HTTP answers of receive_task (NoResponse: none given yet).
NoResponse == [code |-> 0, body |-> None]
Received == [code |-> 200, body |-> "received"]
Forbidden == [code |-> 403, body |-> "Invalid secret"]

NoPayload ==
    [email |-> <<None, 0>>, task |-> None, round |-> 0, nonce |-> <<None, 0>>,
     repo_url |-> << >>, commit_sha |-> <<0, None>>, pages_url |-> << >>]

NoLocals ==
    [repo |-> NoRepo, existing_code |-> NoText, attach_contents |-> << >>,
     index_content |-> NoText,
     file |-> [path |-> None, sha |-> NoText], payload |-> NoPayload,
     retries |-> DefaultRetries, attempt |-> 0, response |-> << >>]

Call(op, arg, ok) == [op |-> op, arg |-> arg, ok |-> ok]

Init ==
    /\ repos \in [RepoNames -> PriorStates]
    /\ req = [u \in Units |-> NoRequest]
    /\ pc = [u \in Units |-> "idle"]
    /\ resp = [u \in Units |-> NoResponse]
    /\ loc = [u \in Units |-> NoLocals]
    /\ calls = [u \in Units |-> << >>]
    /\ faults = 0

\* pc, calls and the locals of unit u after one step; the rest is per action.
Goto(u, to) == pc' = [pc EXCEPT ![u] = to]
Log(u, call) == calls' = [calls EXCEPT ![u] = Append(@, call)]
Raise(u) == Goto(u, "failed")

\* A hosting call may fail whatever the account holds, MaxFaults times.
MayFault == faults < MaxFaults
CountFault(dueToState) ==
    faults' = IF dueToState THEN faults ELSE faults + 1

\* ------------------------------------------------------------ receive_task

\* What the handler has answered once it has handed the unit to
\* background_tasks: the JSONResponse, sent before the unit starts.
AnswerAfterUnit(request) == NoResponse

AnswerOnAccept(request) == Received

\* if request.secret != EXPECTED_SECRET: raise HTTPException(403)
SecretOkAlways(request) == TRUE

SecretOk(request) == request.secret = EXPECTED_SECRET

\* The event loop is inside a background unit, which yields nowhere.
LoopBusy ==
    \E v \in Units : pc[v] \notin {"idle", "rejected", "scheduled", "done", "failed"}

\* The handler, in a server process whose event loop is busy or not, for the
\* requests with one of briefs.
ReceiveTask(u, busy, briefs) ==
    /\ pc[u] = "idle"
    /\ ~busy
    /\ \A v \in Units : v < u => pc[v] # "idle"
    /\ \E secret \in Secrets, task \in Tasks, round \in Rounds, brief \in briefs :
         LET request == TaskRequest(u, secret, task, round, brief) IN
         /\ req' = [req EXCEPT ![u] = request]
         /\ \/ /\ ~SecretOk(request)
               /\ resp' = [resp EXCEPT ![u] = Forbidden]
               /\ Goto(u, "rejected")
            \/ /\ SecretOk(request)
               /\ resp' = [resp EXCEPT ![u] = AnswerOnAccept(request)]
               /\ Goto(u, "scheduled")
    /\ UNCHANGED <<repos, loc, calls, faults>>

\* One server process receives every request.
receive_task(u) == ReceiveTask(u, LoopBusy, Briefs)

\* Every request has a server process of its own.
receive_task_worker(u) == ReceiveTask(u, FALSE, WorkerBriefs)


\* ------------------------------------------------------------ process_task
Round(u) == req[u].round
Name(u) == RepoName(req[u])
Repo(u) == repos[loc[u].repo]

\* One file write is one commit, which becomes the head of the repository.
Commit(name, path, content, by) ==
    [repos EXCEPT ![name].files[path] = content, ![name].head = <<by, path>>]

\* The response is out and the framework awaits process_task(request):
\* g = Github(GITHUB_TOKEN); user = g.get_user(); repo_name = ...
ProcessTask(u, busy) ==
    /\ pc[u] = "scheduled"
    /\ ~busy
    /\ Goto(u, "get_repo")
    /\ UNCHANGED <<repos, req, resp, loc, calls, faults>>

process_task(u) == ProcessTask(u, LoopBusy)
process_task_worker(u) == ProcessTask(u, FALSE)

\* except: if request.round == 1: create_repo(...); if not repo: raise
AfterLookupRaisedCreates(u) == "create_repo"

AfterLookupRaised(u) == IF Round(u) = 1 THEN "create_repo" ELSE "failed"

\* 4.6 with the repository in hand: round 2 reads the existing index.html,
\* then generate_app_code is called.
AfterRepoWritesAtOnce(u) == "readme_get"

AfterRepo(u) == IF Round(u) = 2 THEN "get_existing" ELSE "generate"

\* 4.5 repo = user.get_repo(repo_name); the bare except of round 1 creates it.
get_repo(u) ==
    /\ pc[u] = "get_repo"
    /\ \/ /\ repos[Name(u)].exists
          /\ loc' = [loc EXCEPT ![u].repo = Name(u)]
          /\ Log(u, Call("get_repo", Name(u), TRUE))
          /\ Goto(u, AfterRepo(u))
          /\ UNCHANGED faults
       \/ /\ ~repos[Name(u)].exists \/ MayFault
          /\ CountFault(~repos[Name(u)].exists)
          /\ Log(u, Call("get_repo", Name(u), FALSE))
          /\ Goto(u, AfterLookupRaised(u))
          /\ UNCHANGED loc
    /\ UNCHANGED <<repos, req, resp>>

create_repo(u) ==
    /\ pc[u] = "create_repo"
    /\ \/ /\ ~repos[Name(u)].exists
          /\ repos' = [repos EXCEPT ![Name(u)] = FreshRepo]
          /\ loc' = [loc EXCEPT ![u].repo = Name(u)]
          /\ Log(u, Call("create_repo", Name(u), TRUE))
          /\ Goto(u, AfterRepo(u))
          /\ UNCHANGED faults
       \/ /\ repos[Name(u)].exists \/ MayFault
          /\ CountFault(repos[Name(u)].exists)
          /\ Log(u, Call("create_repo", Name(u), FALSE))
          /\ Raise(u)
          /\ UNCHANGED <<repos, loc>>
    /\ UNCHANGED <<req, resp>>

\* 4.6 round 2: existing_code = the repository's index.html, None when the
\* lookup raises.
get_existing(u) ==
    /\ pc[u] = "get_existing"
    /\ \/ /\ Repo(u).files["index.html"] # NoFile
          /\ loc' = [loc EXCEPT ![u].existing_code = Repo(u).files["index.html"]]
          /\ Log(u, Call("get_contents", "index.html", TRUE))
          /\ UNCHANGED faults
       \/ /\ Repo(u).files["index.html"] = NoFile \/ MayFault
          /\ CountFault(Repo(u).files["index.html"] = NoFile)
          /\ Log(u, Call("get_contents", "index.html", FALSE))
          /\ UNCHANGED loc
    /\ Goto(u, "generate")
    /\ UNCHANGED <<repos, req, resp>>


\* ------------------------------------------------------------ generate_app_code
\* 4.6 index_content = generate_app_code(brief, attachments, existing_code):
\* first the attachments loop, whose exception leaves the function.
attachments(u) ==
    /\ pc[u] = "generate"
    /\ LET result == AttachContents(req[u].attachments) IN
       IF result.raised
       THEN /\ Raise(u)
            /\ UNCHANGED loc
       ELSE /\ loc' = [loc EXCEPT ![u].attach_contents = result.text]
            /\ Goto(u, "gemini")
    /\ UNCHANGED <<repos, req, resp, calls, faults>>

\* A provider call in the log: the prompt sent and the text that came back.
Asked(prompt, text) == [prompt |-> prompt, text |-> text]

\* return response.text.strip(...): a Gemini answer leaves the function.
AfterGeminiFallsThrough(ok) == "huggingface"

AfterGemini(ok) == IF ok THEN "readme_get" ELSE "huggingface"

\* Try Gemini: one call; its text, fences stripped, is returned.
Gemini(u, texts) ==
    /\ pc[u] = "gemini"
    /\ LET prompt == Prompt(req[u].brief, loc[u].attach_contents,
                            loc[u].existing_code) IN
       \/ \E text \in texts :
            /\ loc' = [loc EXCEPT ![u].index_content = StripFences(text)]
            /\ Log(u, Call("gemini", Asked(prompt, text), TRUE))
            /\ Goto(u, AfterGemini(TRUE))
       \/ /\ Log(u, Call("gemini", Asked(prompt, NoText), FALSE))
          /\ Goto(u, AfterGemini(FALSE))
          /\ UNCHANGED loc
    /\ UNCHANGED <<repos, req, resp, faults>>

\* Fallback to Hugging Face: one call; when it raises too, the final fallback
\* is returned.
HuggingFace(u, texts) ==
    /\ pc[u] = "huggingface"
    /\ LET prompt == Prompt(req[u].brief, loc[u].attach_contents,
                            loc[u].existing_code) IN
       \/ \E text \in texts :
            /\ loc' = [loc EXCEPT ![u].index_content = StripFences(text)]
            /\ Log(u, Call("huggingface", Asked(prompt, text), TRUE))
       \/ /\ loc' = [loc EXCEPT ![u].index_content =
                        Placeholder(req[u].brief, loc[u].existing_code)]
          /\ Log(u, Call("huggingface", Asked(prompt, NoText), FALSE))
    /\ Goto(u, "readme_get")
    /\ UNCHANGED <<repos, req, resp, faults>>

\* The providers as process_task meets them, each with its one answer.
gemini(u) == Gemini(u, {GeminiText})
huggingface(u) == HuggingFace(u, {HuggingFaceText})

\* The providers answering any text.
gemini_any(u) == Gemini(u, ProviderTexts)
huggingface_any(u) == HuggingFace(u, ProviderTexts)

\* ------------------------------------------------------------ 4.7 files
\* repo.get_contents(path): the file handle, or an exception.
GetContents(u, path, toUpdate, toCreate) ==
    /\ \/ /\ Repo(u).files[path] # NoFile
          /\ loc' = [loc EXCEPT ![u].file = [path |-> path, sha |-> Repo(u).files[path]]]
          /\ Log(u, Call("get_contents", path, TRUE))
          /\ Goto(u, toUpdate)
          /\ UNCHANGED faults
       \/ /\ Repo(u).files[path] = NoFile \/ MayFault
          /\ CountFault(Repo(u).files[path] = NoFile)
          /\ Log(u, Call("get_contents", path, FALSE))
          /\ Goto(u, toCreate)
          /\ UNCHANGED loc
    /\ UNCHANGED <<repos, req, resp>>

\* repo.update_file(path, message, content, sha): refused when the file is no
\* longer the one the handle was read from; any exception falls to create_file.
UpdateFile(u, content, next, toCreate) ==
    LET path == loc[u].file.path
        same == Repo(u).files[path] = loc[u].file.sha
    IN  /\ \/ /\ same
              /\ repos' = Commit(loc[u].repo, path, content, u)
              /\ Log(u, Call("update_file", path, TRUE))
              /\ Goto(u, next)
              /\ UNCHANGED faults
           \/ /\ ~same \/ MayFault
              /\ CountFault(~same)
              /\ Log(u, Call("update_file", path, FALSE))
              /\ Goto(u, toCreate)
              /\ UNCHANGED repos
        /\ UNCHANGED <<req, resp, loc>>

\* repo.create_file(path, message, content): refused when the path exists.
CreateFile(u, path, content, next) ==
    /\ \/ /\ Repo(u).files[path] = NoFile
          /\ repos' = Commit(loc[u].repo, path, content, u)
          /\ Log(u, Call("create_file", path, TRUE))
          /\ Goto(u, next)
          /\ UNCHANGED faults
       \/ /\ Repo(u).files[path] # NoFile \/ MayFault
          /\ CountFault(Repo(u).files[path] # NoFile)
          /\ Log(u, Call("create_file", path, FALSE))
          /\ Raise(u)
          /\ UNCHANGED repos
    /\ UNCHANGED <<req, resp, loc>>

readme_content(u) ==
    generate_readme(req[u].brief, req[u].checks, req[u].task, req[u].round)

readme_get(u) ==
    /\ pc[u] = "readme_get"
    /\ GetContents(u, "README.md", "readme_update", "readme_create")

readme_update(u) ==
    /\ pc[u] = "readme_update"
    /\ UpdateFile(u, readme_content(u), "index_get", "readme_create")

readme_create(u) ==
    /\ pc[u] = "readme_create"
    /\ CreateFile(u, "README.md", readme_content(u), "index_get")

\* LICENSE and pages only for round 1.
AfterIndexAlways(u) == "license"

AfterIndexNever(u) == "get_commits"

AfterIndex(u) == IF Round(u) = 1 THEN "license" ELSE "get_commits"

index_get(u) ==
    /\ pc[u] = "index_get"
    /\ GetContents(u, "index.html", "index_update", "index_create")

index_update(u) ==
    /\ pc[u] = "index_update"
    /\ UpdateFile(u, loc[u].index_content, AfterIndex(u), "index_create")

index_create(u) ==
    /\ pc[u] = "index_create"
    /\ CreateFile(u, "index.html", loc[u].index_content, AfterIndex(u))

license(u) ==
    /\ pc[u] = "license"
    /\ CreateFile(u, "LICENSE", MIT_LICENSE, "pages")

\* 4.8 enable_github_pages(repo): POST .../pages, refused when the site exists.
enable_github_pages(u) ==
    /\ pc[u] = "pages"
    /\ \/ /\ ~Repo(u).pages
          /\ repos' = [repos EXCEPT ![loc[u].repo].pages = TRUE]
          /\ Log(u, Call("enable_pages", loc[u].repo, TRUE))
          /\ Goto(u, "get_commits")
          /\ UNCHANGED faults
       \/ /\ Repo(u).pages \/ MayFault
          /\ CountFault(Repo(u).pages)
          /\ Log(u, Call("enable_pages", loc[u].repo, FALSE))
          /\ Raise(u)
          /\ UNCHANGED repos
    /\ UNCHANGED <<req, resp, loc>>

\* 4.11 the notification payload.
PayloadOfFirstRequest(u, commit_sha) ==
    [email |-> req[1].email, task |-> req[1].task, round |-> req[1].round,
     nonce |-> req[1].nonce, repo_url |-> HtmlUrl(loc[u].repo),
     commit_sha |-> commit_sha, pages_url |-> PagesUrl(RepoName(req[1]))]

Payload(u, commit_sha) ==
    [email |-> req[u].email, task |-> req[u].task, round |-> req[u].round,
     nonce |-> req[u].nonce, repo_url |-> HtmlUrl(loc[u].repo),
     commit_sha |-> commit_sha, pages_url |-> PagesUrl(Name(u))]

\* repo.get_commits()[0]: the head of the repository when it is asked.
HeadCommitOwnLastWrite(u) == <<u, IF Round(u) = 1 THEN "LICENSE" ELSE "index.html">>

HeadCommit(u) == Repo(u).head

\* 4.9 commit_sha = repo.get_commits()[0].sha
get_commits(u) ==
    /\ pc[u] = "get_commits"
    /\ \/ /\ loc' = [loc EXCEPT ![u].payload = Payload(u, HeadCommit(u))]
          /\ Log(u, Call("get_commits", loc[u].repo, TRUE))
          /\ Goto(u, "post")
          /\ UNCHANGED faults
       \/ /\ MayFault
          /\ CountFault(FALSE)
          /\ Log(u, Call("get_commits", loc[u].repo, FALSE))
          /\ Raise(u)
          /\ UNCHANGED loc
    /\ UNCHANGED <<repos, req, resp>>


\* ------------------------------------------------------------ post_to_evaluation_url
\* What one requests.post can end in: a status code of the evaluation server
\* or, written 0, no response at all (a connection error, the 10 s timeout).
StatusCodes == {200, 304, 500}
Statuses == StatusCodes \cup {0}

\* response.raise_for_status() raises for the 4xx and 5xx codes only.
RaisesForStatus(status) == status >= 400 /\ status < 600

\* The attempt ends in a requests.RequestException.
AttemptFails(status) == status = 0 \/ RaisesForStatus(status)

\* if attempt < retries - 1: sleep, else: raise
LastAttempt(attempt, retries) == ~(attempt < retries - 1)

\* time.sleep(2 ** attempt)
BackoffLinear(attempt) == attempt + 1

Backoff(attempt) == 2 ^ attempt

\* for attempt in range(retries): one requests.post of the loop, ending in
\* one of outcomes.
Attempt(u, outcomes) ==
    /\ pc[u] = "post"
    /\ loc[u].attempt < loc[u].retries
    /\ \E status \in outcomes :
         /\ Log(u, Call("post", [payload |-> loc[u].payload, status |-> status],
                         ~AttemptFails(status)))
         /\ IF ~AttemptFails(status)
            THEN /\ loc' = [loc EXCEPT ![u].response = <<status>>]
                 /\ Goto(u, "done")
            ELSE /\ UNCHANGED loc
                 /\ IF LastAttempt(loc[u].attempt, loc[u].retries)
                    THEN Raise(u)
                    ELSE Goto(u, "sleep")
    /\ UNCHANGED <<repos, req, resp, faults>>

\* The loop as process_task runs it, the evaluation server being reachable.
notify(u) == Attempt(u, StatusCodes)

\* The loop on its own.
post(u) == Attempt(u, Statuses)

sleep(u) ==
    /\ pc[u] = "sleep"
    /\ Log(u, Call("sleep", Backoff(loc[u].attempt), TRUE))
    /\ loc' = [loc EXCEPT ![u].attempt = @ + 1]
    /\ Goto(u, "post")
    /\ UNCHANGED <<repos, req, resp, faults>>

\* range(retries) is used up without a return or a raise: the function ends
\* and returns None.
post_returns_none(u) ==
    /\ pc[u] = "post"
    /\ ~(loc[u].attempt < loc[u].retries)
    /\ Goto(u, "done")
    /\ UNCHANGED <<repos, req, resp, loc, calls, faults>>

\* ------------------------------------------------------------ specifications
Next ==
    \E u \in Units :
        \/ receive_task(u)
        \/ process_task(u)
        \/ get_repo(u)
        \/ create_repo(u)
        \/ get_existing(u)
        \/ attachments(u)
        \/ gemini(u)
        \/ huggingface(u)
        \/ readme_get(u)
        \/ readme_update(u)
        \/ readme_create(u)
        \/ index_get(u)
        \/ index_update(u)
        \/ index_create(u)
        \/ license(u)
        \/ enable_github_pages(u)
        \/ get_commits(u)
        \/ notify(u)
        \/ sleep(u)

Spec == Init /\ [][Next]_vars

\* Several server processes on one hosting account, a request each: their
\* background units interleave call by call.
InitWorkers ==
    /\ repos \in [RepoNames -> WorkerPriorStates]
    /\ req = [u \in Units |-> NoRequest]
    /\ pc = [u \in Units |-> "idle"]
    /\ resp = [u \in Units |-> NoResponse]
    /\ loc = [u \in Units |-> NoLocals]
    /\ calls = [u \in Units |-> << >>]
    /\ faults = 0

NextWorkers ==
    \E u \in Units :
        \/ receive_task_worker(u)
        \/ process_task_worker(u)
        \/ get_repo(u)
        \/ create_repo(u)
        \/ get_existing(u)
        \/ attachments(u)
        \/ gemini(u)
        \/ huggingface(u)
        \/ readme_get(u)
        \/ readme_update(u)
        \/ readme_create(u)
        \/ index_get(u)
        \/ index_update(u)
        \/ index_create(u)
        \/ license(u)
        \/ enable_github_pages(u)
        \/ get_commits(u)
        \/ notify(u)
        \/ sleep(u)

SpecWorkers == InitWorkers /\ [][NextWorkers]_vars

\* post_to_evaluation_url on its own, called with every retry budget.
NotifyPayload ==
    [email |-> <<"mail", 1>>, task |-> "T", round |-> 1, nonce |-> <<"nonce", 1>>,
     repo_url |-> HtmlUrl(<<"T", 1>>), commit_sha |-> <<1, "LICENSE">>,
     pages_url |-> PagesUrl(<<"T", 1>>)]

InitNotify ==
    /\ repos = [n \in RepoNames |-> Absent]
    /\ req = [u \in Units |-> NoRequest]
    /\ pc = [u \in Units |-> IF u = 1 THEN "post" ELSE "idle"]
    /\ resp = [u \in Units |-> NoResponse]
    /\ \E retries \in 0..MaxRetries :
         loc = [u \in Units |->
                  IF u = 1 THEN [NoLocals EXCEPT !.retries = retries,
                                                 !.payload = NotifyPayload]
                  ELSE NoLocals]
    /\ calls = [u \in Units |-> << >>]
    /\ faults = 0

NextNotify ==
    \E u \in Units :
        \/ post(u)
        \/ sleep(u)
        \/ post_returns_none(u)

SpecNotify == InitNotify /\ [][NextNotify]_vars

\* generate_app_code on its own, called with every attachments list, with and
\* without existing code, the providers answering any text.
ExistingCodes == {NoText, << >>, <<"<", "o", ">">>}

InitGenerate ==
    /\ repos = [n \in RepoNames |-> Absent]
    /\ \E brief \in Briefs, list \in AttachmentLists(MaxAttachments) :
         req = [u \in Units |->
                  IF u = 1
                  THEN [TaskRequest(1, EXPECTED_SECRET, "T", 1, brief)
                          EXCEPT !.attachments = list]
                  ELSE NoRequest]
    /\ pc = [u \in Units |-> IF u = 1 THEN "generate" ELSE "idle"]
    /\ resp = [u \in Units |-> NoResponse]
    /\ \E existing_code \in ExistingCodes :
         loc = [u \in Units |->
                  IF u = 1 THEN [NoLocals EXCEPT !.existing_code = existing_code]
                  ELSE NoLocals]
    /\ calls = [u \in Units |-> << >>]
    /\ faults = 0

NextGenerate ==
    \E u \in Units :
        \/ attachments(u)
        \/ gemini_any(u)
        \/ huggingface_any(u)

SpecGenerate == InitGenerate /\ [][NextGenerate]_vars


\* ------------------------------------------------------------ reading the call logs
Ended(u) == pc[u] \in {"done", "failed"}

\* The places of unit u's log where op was called (with that outcome).
Made(u, op) == {i \in DOMAIN calls[u] : calls[u][i].op = op}
Succeeded(u, op) == {i \in Made(u, op) : calls[u][i].ok}
Raised(u, op) == {i \in Made(u, op) : ~calls[u][i].ok}

\* The successful writes of path (create_file or update_file).
Wrote(u, path) ==
    {i \in Succeeded(u, "create_file") \cup Succeeded(u, "update_file") :
        calls[u][i].arg = path}

\* Calls that change the hosting account when they succeed.
MutatingOps == {"create_repo", "create_file", "update_file", "enable_pages"}

\* ------------------------------------------------------------ claims

\* C1: a request whose secret differs from EXPECTED_SECRET is answered 403 and
\* nothing is ever done for it: its unit is never scheduled, and no provider
\* call, no hosting call and no notification POST is made on its behalf.
C1_BadSecretRejectedNoWork ==
    \A u \in Units :
        (pc[u] # "idle" /\ req[u].secret # EXPECTED_SECRET) =>
            /\ resp[u] = Forbidden
            /\ pc[u] = "rejected"
            /\ calls[u] = << >>
            /\ loc[u] = NoLocals

\* C1 witness: a request with a wrong secret stands rejected while another
\* request of the same behaviour has run to its notification.
C1_Witness ==
    \E u, v \in Units :
        /\ pc[u] = "rejected" /\ req[u].secret # EXPECTED_SECRET
        /\ pc[v] = "done" /\ Succeeded(v, "post") # {}

\* C2 (as claimed): once a round-1 unit for task T has ended with its
\* notification delivered, the lookup step of a round-2 unit for the same T
\* yields the repository the round-1 unit worked on.
C2_Round2FindsRound1Repo ==
    [][\A u, v \in Units :
         ( /\ pc[u] = "done" /\ req[u].round = 1 /\ Succeeded(u, "post") # {}
           /\ req[v].round = 2 /\ req[v].task = req[u].task
           /\ pc[v] = "get_repo" /\ pc'[v] # "get_repo" )
         => loc'[v].repo = loc[u].repo]_vars

C4_Round1LicenseAndPagesOnce ==
    \A u \in Units :
        (req[u].round = 1 /\ Ended(u) /\ faults = 0) =>
            /\ Cardinality(Wrote(u, "LICENSE")) = 1
            /\ Cardinality(Succeeded(u, "enable_pages")) = 1

\* C5: a round-2 run never calls create_repo, never calls create_file for
\* LICENSE and never calls enable_github_pages, whether the call would succeed
\* or not and however the run ends.
C5_Round2NoLicenseRepoPages ==
    \A u \in Units :
        req[u].round = 2 =>
            /\ Made(u, "create_repo") = {}
            /\ Made(u, "enable_pages") = {}
            /\ \A i \in Made(u, "create_file") : calls[u][i].arg # "LICENSE"
            /\ \A n \in RepoNames : repos[n].head # <<u, "LICENSE">>

\* C5 witness: one round-2 run has delivered its notification and another
\* round-2 run has failed.
C5_Witness ==
    \E u, v \in Units :
        /\ req[u].round = 2 /\ pc[u] = "done" /\ Succeeded(u, "post") # {}
        /\ req[v].round = 2 /\ pc[v] = "failed"

\* C6: when the repository lookup of a round-2 run raises, the run ends
\* failed there: the lookup is its only call (no provider call, no
\* create_repo, no file call, no POST) and no commit of the account is its.
C6_Round2LookupFailureIsFatal ==
    \A u \in Units :
        (req[u].round = 2 /\ Raised(u, "get_repo") # {}) =>
            /\ pc[u] = "failed"
            /\ Len(calls[u]) = 1
            /\ loc[u] = NoLocals
            /\ \A n \in RepoNames : repos[n].head[1] # u

\* C6 witness: a round-2 run failed on its lookup although a round-1 run for
\* the same task had delivered its notification.
C6_Witness ==
    \E u, v \in Units :
        /\ req[u].round = 2 /\ Raised(u, "get_repo") # {} /\ pc[u] = "failed"
        /\ req[v].round = 1 /\ req[v].task = req[u].task
        /\ pc[v] = "done" /\ Succeeded(v, "post") # {}

\* C7: an accepted request has its acknowledgement, status "received", from
\* the moment it is scheduled: before the first step of its unit, during the
\* unit, and after the unit ended, be it done or failed.
C7_AcknowledgedBeforeAndWhateverTheUnit ==
    \A u \in Units :
        (pc[u] \notin {"idle", "rejected"}) => resp[u] = Received

\* C7 witness: two accepted requests, one whose unit raised and one whose unit
\* delivered its notification, both acknowledged.
C7_Witness ==
    \E u, v \in Units :
        /\ pc[u] = "failed" /\ resp[u] = Received /\ calls[u] # << >>
        /\ pc[v] = "done" /\ resp[v] = Received


\* The requests.post and time.sleep calls of unit u's notifier, in order.
IsLoopCall(c) == c.op \in {"post", "sleep"}
LoopCalls(u) == SelectSeq(calls[u], IsLoopCall)
Is2xx(status) == status >= 200 /\ status < 300

\* C8: called with the default budget, post_to_evaluation_url makes at most 4
\* POST attempts, none after an attempt answered 2xx, and a 4th attempt comes
\* only after attempt 1, sleep 1, attempt 2, sleep 2, attempt 3, sleep 4.
C8_DefaultBudgetAttemptsAndWaits ==
    \A u \in Units :
        loc[u].retries = DefaultRetries =>
            LET L == LoopCalls(u)
                posts == {i \in DOMAIN L : L[i].op = "post"}
                nth(i) == Cardinality({j \in posts : j <= i})
            IN  /\ Cardinality(posts) <= 4
                /\ \A i \in posts : Is2xx(L[i].arg.status) => i = Len(L)
                /\ \A i \in posts : nth(i) = 4 =>
                     /\ i = 7
                     /\ \A k \in {1, 3, 5} : L[k].op = "post"
                     /\ \A k \in {2, 4, 6} : L[k].op = "sleep"
                     /\ <<L[2].arg, L[4].arg, L[6].arg>> = <<1, 2, 4>>
                     /\ L[2].arg + L[4].arg + L[6].arg >= 7

\* C8 witness: with the default budget three attempts failed and the 4th was
\* answered 200.
C8_Witness ==
    \E u \in Units :
        /\ loc[u].retries = DefaultRetries
        /\ Cardinality(Made(u, "post")) = 4
        /\ pc[u] = "done" /\ loc[u].response = <<200>>

\* C9 (as claimed): for every retry budget, post_to_evaluation_url returns
\* normally only with the response of a POST that was answered 2xx.
C9_ReturnsOnlyA2xxResponse ==
    \A u \in Units :
        pc[u] = "done" =>
            /\ loc[u].response # << >>
            /\ Is2xx(loc[u].response[1])
            /\ \E i \in Made(u, "post") : Is2xx(calls[u][i].arg.status)

\* C10: when both providers raised, generate_app_code has not raised (the
\* unit goes on to the README step) and has returned the document that has
\* the brief between the title tags and between the h1 tags; it is not
\* empty, and two units with the same brief got the same document whatever
\* their existing code.
C10_PlaceholderWhenBothProvidersRaise ==
    \A u \in Units :
        (Raised(u, "gemini") # {} /\ Raised(u, "huggingface") # {}) =>
            LET doc == loc[u].index_content
                brief == req[u].brief
            IN  /\ doc # << >> /\ doc # NoText
                /\ doc = <<"<!DOCTYPE html>\n<html><head><title>">> \o brief
                         \o <<"</title></head><body><h1>">> \o brief
                         \o <<"</h1></body></html>">>
                /\ calls[u][Len(calls[u])].op = "huggingface" => pc[u] = "readme_get"
                /\ \A v \in Units :
                     (Raised(v, "huggingface") # {} /\ req[v].brief = brief)
                     => loc[v].index_content = doc

\* C10 witness: both providers raised for two units with the same, non-empty
\* brief, one generating from existing code and one from nothing.
C10_Witness ==
    \E u, v \in Units :
        /\ Raised(u, "huggingface") # {} /\ Raised(v, "huggingface") # {}
        /\ Raised(u, "gemini") # {} /\ Raised(v, "gemini") # {}
        /\ req[u].brief = req[v].brief /\ req[u].brief # << >>
        /\ Truthy(loc[u].existing_code) /\ loc[v].existing_code = NoText


\* ------------------------------------------------------------ C11
\* C11: in every call of generate_app_code the primary provider (Gemini) is
\* called at most once and the secondary (Hugging Face) at most once; every
\* call of the secondary comes after a call of the primary that raised, and
\* none is made when the primary answered; the text returned is the fence
\* stripped answer of the provider that answered.
C11_PrimaryThenSecondaryOnFailure ==
    \A u \in Units :
        /\ Cardinality(Made(u, "gemini")) <= 1
        /\ Cardinality(Made(u, "huggingface")) <= 1
        /\ \A i \in Made(u, "huggingface") :
               \E j \in Raised(u, "gemini") : j < i
        /\ Succeeded(u, "gemini") # {} => Made(u, "huggingface") = {}
        /\ \A i \in Succeeded(u, "gemini") \cup Succeeded(u, "huggingface") :
               /\ i = Len(calls[u])
               /\ pc[u] = "readme_get"
               /\ loc[u].index_content = StripFences(calls[u][i].arg.text)

\* The secondary answered after the primary raised, and its text came back.
C11_Witness ==
    \E u \in Units :
        /\ Raised(u, "gemini") # {}
        /\ \E i \in Succeeded(u, "huggingface") :
               /\ calls[u][i].arg.text = <<"\n", "<", "p", ">">>
               /\ loc[u].index_content = <<"\n", "<", "p", ">">>

\* ------------------------------------------------------------ C12
\* C12: every notification a background unit sends carries the email, task,
\* round and nonce of the request that started that unit, and the pages_url
\* and repository address of the name task-round of that same request, also
\* while another unit with another request is under way.
C12_PayloadOfOwnRequest ==
    \A u \in Units :
        \A i \in Made(u, "post") :
            LET payload == calls[u][i].arg.payload IN
            /\ payload.email = req[u].email
            /\ payload.email = <<"mail", u>>
            /\ payload.task = req[u].task
            /\ payload.round = req[u].round
            /\ payload.nonce = req[u].nonce
            /\ payload.nonce = <<"nonce", u>>
            /\ payload.pages_url =
                  <<"https://", GITHUB_USERNAME, ".github.io/",
                    req[u].task, "-", ToString(req[u].round), "/">>
            /\ payload.repo_url =
                  <<"https://github.com/", GITHUB_USERNAME, "/",
                    req[u].task, "-", ToString(req[u].round)>>

\* Two units of different rounds are between two notification attempts at
\* the same time.
C12_Witness ==
    \E u, v \in Units :
        /\ req[u].round # req[v].round
        /\ pc[u] = "sleep"
        /\ pc[v] = "sleep"
        /\ Made(u, "post") # {}
        /\ Made(v, "post") # {}

\* ------------------------------------------------------------ C13
\* generate_app_code has returned before the i-th call of unit u: Gemini
\* answered, or Hugging Face was called (answering or not, the function
\* returns after it).
GeneratorReturnedBefore(u, i) ==
    \E j \in Succeeded(u, "gemini") \cup Made(u, "huggingface") : j < i

FileAndPagesOps == {"create_file", "update_file", "enable_pages"}

\* C13 as stated: no call that changes the hosting account (create
\* repository, create file, update file, enable pages) is made before the
\* generator has returned its document.
C13_NoMutationBeforeGenerator ==
    \A u \in Units :
        \A i \in DOMAIN calls[u] :
            calls[u][i].op \in MutatingOps => GeneratorReturnedBefore(u, i)

\* C13 amended: the repository is looked up, and created in round 1, before
\* the generator is called; every file write and the enabling of pages comes
\* after the generator has returned, and every notification after the last
\* of those.
C13_RepoThenGeneratorThenFilesThenNotifier ==
    \A u \in Units :
        \A i \in DOMAIN calls[u] :
            /\ calls[u][i].op \in FileAndPagesOps => GeneratorReturnedBefore(u, i)
            /\ calls[u][i].op \in {"get_repo", "create_repo"} =>
                   \A j \in Made(u, "gemini") \cup Made(u, "huggingface") : i < j
            /\ calls[u][i].op \in {"post", "sleep"} =>
                   /\ GeneratorReturnedBefore(u, i)
                   /\ \A j \in DOMAIN calls[u] :
                          calls[u][j].op \in MutatingOps => j < i

\* A round-1 unit created its repository, generated, wrote and notified.
C13_Witness ==
    \E u \in Units :
        /\ Succeeded(u, "create_repo") # {}
        /\ Succeeded(u, "gemini") # {}
        /\ Wrote(u, "index.html") # {}
        /\ Succeeded(u, "enable_pages") # {}
        /\ Made(u, "post") # {}

\* ------------------------------------------------------------ C14
\* A data URI that cannot be decoded: no comma, or base64 that does not decode.
IsMalformed(attach) ==
    /\ StartsWithData(attach.url)
    /\ \/ FirstComma(attach.url, 1) = 0
       \/ B64Raises(SubSeq(attach.url, FirstComma(attach.url, 1) + 1,
                           Len(attach.url)))
IsBinaryNote(part) == part = ": [Binary data]..."
LoopOver(u) == pc[u] \in {"gemini", "huggingface", "readme_get", "failed"}

\* C14: whatever the attachments list, malformed data URIs included (no
\* comma, invalid base64), generate_app_code does not raise in its attachments
\* loop: every attachment that cannot be decoded is annotated [Binary data]
\* and the function goes on to the providers.
C14_MalformedAttachmentDegrades ==
    \A u \in Units :
        LoopOver(u) =>
            /\ pc[u] # "failed"
            /\ Len(SelectSeq(loc[u].attach_contents, IsBinaryNote))
                  = Len(SelectSeq(req[u].attachments, IsMalformed))

\* ------------------------------------------------------------ C15
UpdatedPaths == {"README.md", "index.html"}

\* C15: for README.md and index.html, update_file is called exactly when the
\* get_contents just before it retrieved the file, and create_file exactly
\* when that get_contents raised; create_file is never called for a file
\* whose handle was retrieved, not even when update_file raises.
C15_UpdateIffRetrievedElseCreate ==
    \A u \in Units :
        \A i \in DOMAIN calls[u] :
            LET call == calls[u][i] IN
            /\ call.op = "create_file" /\ call.arg \in UpdatedPaths =>
                   /\ i > 1
                   /\ calls[u][i - 1].op = "get_contents"
                   /\ calls[u][i - 1].arg = call.arg
                   /\ ~calls[u][i - 1].ok
            /\ call.op = "update_file" =>
                   /\ i > 1
                   /\ calls[u][i - 1].op = "get_contents"
                   /\ calls[u][i - 1].arg = call.arg
                   /\ calls[u][i - 1].ok
            /\ (/\ call.op = "get_contents"
                /\ GeneratorReturnedBefore(u, i)
                /\ i < Len(calls[u])) =>
                   /\ calls[u][i + 1].op =
                         (IF call.ok THEN "update_file" ELSE "create_file")
                   /\ calls[u][i + 1].arg = call.arg

\* ------------------------------------------------------------ C16
\* The seconds slept by unit u, in order.
IsSleep(c) == c.op = "sleep"
RECURSIVE Seconds(_)
Seconds(log) ==
    IF log = << >> THEN << >>
    ELSE (IF IsSleep(Head(log)) THEN <<Head(log).arg>> ELSE << >>)
         \o Seconds(Tail(log))

\* The number of the attempt made by the i-th call of unit u, from 0.
AttemptOf(u, i) == Cardinality({j \in Made(u, "post") : j < i})

\* C16: once post_to_evaluation_url has ended, every attempt that failed (no
\* response, or a response that is not 2xx) was followed by a wait of
\* 2^attempt seconds, attempt counted from 0; a run with the default budget
\* of 4 in which every attempt failed has waited 1, 2, 4 and 8 seconds.
C16_WaitsAfterEveryFailedAttempt ==
    \A u \in Units :
        Ended(u) =>
            /\ \A i \in Made(u, "post") :
                   ~Is2xx(calls[u][i].arg.status) =>
                       /\ i < Len(calls[u])
                       /\ calls[u][i + 1].op = "sleep"
                       /\ calls[u][i + 1].arg = 2 ^ AttemptOf(u, i)
            /\ (loc[u].retries = 4 /\ pc[u] = "failed") =>
                   Seconds(calls[u]) = <<1, 2, 4, 8>>

\* ------------------------------------------------------------ C17
\* The successful file writes of unit u and the path of the last of them.
Writes(u) == Succeeded(u, "create_file") \cup Succeeded(u, "update_file")
LastWrite(u) == calls[u][CHOOSE i \in Writes(u) : \A j \in Writes(u) : j <= i].arg

\* C17: the commit_sha of the payload is the head of the repository at the
\* step that asks for it, which comes after the file writes of the run; the
\* head is then the commit of the last write of this run, unless another
\* writer has committed to the repository since, and then it is the commit
\* of that other writer.
C17_CommitShaIsHeadAtQuery ==
    [][\A u \in Units :
          (pc[u] = "get_commits" /\ pc'[u] = "post") =>
              LET head == repos[loc[u].repo].head IN
              /\ loc'[u].payload.commit_sha = head
              /\ Wrote(u, "README.md") # {}
              /\ Wrote(u, "index.html") # {}
              /\ IF head[1] = u
                 THEN head[2] = LastWrite(u)
                 ELSE /\ head[1] \in Units
                      /\ head[2] \in {calls[head[1]][i].arg : i \in Writes(head[1])}
      ]_vars

\* A unit is about to notify with the commit of another unit, which wrote to
\* the same repository after the last write of this one.
C17_Witness ==
    \E u, v \in Units :
        /\ u # v
        /\ pc[u] = "post"
        /\ loc[u].repo = loc[v].repo
        /\ Writes(u) # {}
        /\ loc[u].payload.commit_sha[1] = v
        /\ loc[u].payload.commit_sha[2] = LastWrite(v)

\* ------------------------------------------------------------ C18
\* What unit u writes to path.
ContentOf(u, path) ==
    CASE path = "README.md" -> readme_content(u)
      [] path = "index.html" -> loc[u].index_content
      [] OTHER -> MIT_LICENSE

\* The repository of unit u after the first k calls of its log, had it
\* started as prior and had no one else touched it.
RECURSIVE RepoAlone(_, _, _)
RepoAlone(prior, u, k) ==
    IF k = 0 THEN prior
    ELSE LET before == RepoAlone(prior, u, k - 1)
             call == calls[u][k]
         IN  IF ~call.ok THEN before
             ELSE CASE call.op = "create_repo" -> FreshRepo
                    [] call.op \in {"create_file", "update_file"} ->
                         [before EXCEPT !.files[call.arg] = ContentOf(u, call.arg),
                                        !.head = <<u, call.arg>>]
                    [] call.op = "enable_pages" -> [before EXCEPT !.pages = TRUE]
                    [] OTHER -> before

\* The calls to the hosting service.
HostingOps == MutatingOps \cup {"get_repo", "get_contents", "get_commits"}

\* Whether the hosting service, with the repository as it is before the call,
\* accepts the call.
Accepts(repo, call) ==
    CASE call.op = "get_repo" -> repo.exists
      [] call.op = "create_repo" -> ~repo.exists
      [] call.op \in {"get_contents", "update_file"} -> repo.files[call.arg] # NoFile
      [] call.op = "create_file" -> repo.files[call.arg] = NoFile
      [] call.op = "enable_pages" -> ~repo.pages
      [] OTHER -> TRUE

\* The log of unit u is one that u makes when it runs alone on a repository
\* that starts as prior: every call has the outcome the repository of the
\* lone run gives it, but for the faults of the hosting service.
LogAsAlone(prior, u) ==
    /\ \A k \in DOMAIN calls[u] :
           calls[u][k].ok => Accepts(RepoAlone(prior, u, k - 1), calls[u][k])
    /\ Cardinality({k \in DOMAIN calls[u] :
                       /\ ~calls[u][k].ok
                       /\ calls[u][k].op \in HostingOps
                       /\ Accepts(RepoAlone(prior, u, k - 1), calls[u][k])})
          <= faults

Accepted(u) == req[u] # NoRequest /\ req[u].secret = EXPECTED_SECRET

\* C18: when the accepted requests have different names task-round, every
\* unit, however the calls of the units interleave, makes the calls with the
\* outcomes of a run of its own on its repository, leaves the repository as
\* that run does, and notifies with the commit of its own last write; the
\* other unit changes nothing of it.
C18_UnitsOfDifferentNamesRunAsAlone ==
    \A u \in Units :
        (/\ Accepted(u)
         /\ \A v \in Units \ {u} :
                Accepted(v) =>
                    req[u].task # req[v].task \/ req[u].round # req[v].round) =>
            \E prior \in WorkerPriorStates :
                /\ LogAsAlone(prior, u)
                /\ repos[<<req[u].task, req[u].round>>]
                      = RepoAlone(prior, u, Len(calls[u]))
                /\ \A i \in Made(u, "post") :
                       calls[u][i].arg.payload.commit_sha
                         = RepoAlone(prior, u, i).head

\* Two units of different names are both between their first file write and
\* their end.
C18_Witness ==
    \E u, v \in Units :
        /\ Accepted(u) /\ Accepted(v)
        /\ req[u].round # req[v].round
        /\ Writes(u) # {} /\ Writes(v) # {}
        /\ ~Ended(u) /\ ~Ended(v)
        /\ Made(u, "get_commits") = {} /\ Made(v, "get_commits") = {}

\* ------------------------------------------------------------ C19
StartsWith(text, part) ==
    Len(text) >= Len(part) /\ SubSeq(text, 1, Len(part)) = part
EndsWith(text, part) ==
    Len(text) >= Len(part)
    /\ SubSeq(text, Len(text) - Len(part) + 1, Len(text)) = part
Contains(text, part) ==
    \E k \in 0..(Len(text) - Len(part)) : SubSeq(text, k + 1, k + Len(part)) = part

\* The document inside a provider text: what is left without the fence lines
\* and the white space around them.
DocumentOf(text) ==
    CHOOSE document \in Documents :
        \E before \in Margins, opening \in Openings,
           closing \in Closings, after \in Margins :
            text = before \o opening \o document \o closing \o after

\* C19: whatever text a provider returns, white space outside the fence
\* included, the text generate_app_code returns neither begins nor ends with a
\* code fence, and it still holds the whole document: removing the fences
\* deletes no character of the document.
C19_FencesRemovedDocumentKept ==
    \A u \in Units :
        \A i \in Succeeded(u, "gemini") \cup Succeeded(u, "huggingface") :
            /\ ~StartsWith(loc[u].index_content, Fence)
            /\ ~EndsWith(loc[u].index_content, Fence)
            /\ Contains(loc[u].index_content, DocumentOf(calls[u][i].arg.text))

====
